---- MODULE Spec2Model ----
(***************************************************************************)
(* Model of maybe/syscall_filters.py: the registry SYSCALL_FILTERS, the    *)
(* format_* / substitute_* functions behind it, and the module-level       *)
(* descriptor table (next_file_descriptor, file_descriptors).              *)
(*                                                                         *)
(* Representation.                                                         *)
(*  - A path string is the sequence of its components as produced by       *)
(*    str.split("/"): "/tmp/x" is <<"", "tmp", "x">>, "x" is <<"x">>,      *)
(*    "/" is <<"", "">>.                                                   *)
(*  - Python None is the empty tuple <<>>; any other returned value v is   *)
(*    the one-element tuple <<v>>.                                         *)
(*  - A description (the formatted string) is a record                     *)
(*    [label |-> ..., parts |-> ...]: the label text and, in order, the    *)
(*    interpolated pieces.  Terminal styling (T.red, T.bold, ...) does not *)
(*    change the text and is left out.                                     *)
(*  - Python args[i] is args[i+1] here.                                    *)
(***************************************************************************)
EXTENDS Integers, Sequences, FiniteSets, TLC

\* ------------------------------------------------------------------ bounds
\* Number of synthetic descriptors a run may allocate.
MaxAlloc == 3
\* Largest byte count / iovcnt passed to the write family.
MaxCount == 2

\* --------------------------------------------------------- program constants
\* os.O_* and stat.S_IF* as imported by the source (Linux values).
O_WRONLY == 1
O_RDWR == 2
O_APPEND == 1024
O_CREAT == 64
O_TRUNC == 512
S_IFCHR == 8192
S_IFBLK == 24576
S_IFIFO == 4096
S_IFSOCK == 49152

None == <<>>
Some(v) == <<v>>

\* ----------------------------------------------------------- integer bits
RECURSIVE BitAnd(_, _)
\* Python's a & b on non-negative integers.
BitAnd(a, b) ==
    IF a = 0 \/ b = 0 THEN 0
    ELSE (IF a % 2 = 1 /\ b % 2 = 1 THEN 1 ELSE 0) + 2 * BitAnd(a \div 2, b \div 2)

RECURSIVE BitOr(_, _)
\* Python's a | b on non-negative integers.
BitOr(a, b) ==
    IF a = 0 THEN b
    ELSE IF b = 0 THEN a
    ELSE (IF a % 2 = 1 \/ b % 2 = 1 THEN 1 ELSE 0) + 2 * BitOr(a \div 2, b \div 2)

\* ------------------------------------------------------------------ "%d"
\* "%d" % n : the decimal text of the integer n.
FormatD(n) == ToString(n)

\* ------------------------------------------------------------- os.path
\* Working directory of the tracer, as os.getcwd() returns it.
Cwd == <<"", "tmp">>

isabs(path) == Len(path) >= 2 /\ path[1] = ""

\* posixpath.join(a, b)
join(a, b) ==
    IF isabs(b) THEN b
    ELSE IF a = <<"">> \/ a[Len(a)] = "" THEN SubSeq(a, 1, Len(a) - 1) \o b
    ELSE a \o b

\* The loop of posixpath.normpath over the components, new_comps being acc.
RECURSIVE NormComps(_, _, _)
NormComps(comps, acc, initial_slashes) ==
    IF comps = <<>> THEN acc
    ELSE LET comp == Head(comps)
             rest == Tail(comps)
         IN IF comp = "" \/ comp = "." THEN NormComps(rest, acc, initial_slashes)
            ELSE IF comp # ".."
                    \/ (initial_slashes = 0 /\ acc = <<>>)
                    \/ (acc # <<>> /\ acc[Len(acc)] = "..")
                 THEN NormComps(rest, Append(acc, comp), initial_slashes)
            ELSE IF acc # <<>>
                 THEN NormComps(rest, SubSeq(acc, 1, Len(acc) - 1), initial_slashes)
            ELSE NormComps(rest, acc, initial_slashes)

\* posixpath.normpath(path)
normpath(path) ==
    IF path = <<"">> THEN <<".">>
    ELSE LET initial_slashes ==
                 IF ~isabs(path) THEN 0
                 ELSE IF Len(path) >= 3 /\ path[2] = "" /\ ~(Len(path) >= 4 /\ path[3] = "")
                      THEN 2
                 ELSE 1
             new_comps == NormComps(path, <<>>, initial_slashes)
         IN CASE initial_slashes = 0 -> IF new_comps = <<>> THEN <<".">> ELSE new_comps
              [] initial_slashes = 1 -> IF new_comps = <<>> THEN <<"", "">>
                                        ELSE <<"">> \o new_comps
              [] initial_slashes = 2 -> IF new_comps = <<>> THEN <<"", "", "">>
                                        ELSE <<"", "">> \o new_comps

\* os.path.abspath(path)
abspath(path) == normpath(IF isabs(path) THEN path ELSE join(Cwd, path))

RECURSIVE RStripSlash(_)
\* str.rstrip("/") on the component form: drop trailing empty components.
RStripSlash(p) ==
    IF Len(p) > 1 /\ p[Len(p)] = "" THEN RStripSlash(SubSeq(p, 1, Len(p) - 1)) ELSE p

\* os.path.dirname(p)
dirname(p) ==
    IF Len(p) = 1 THEN <<"">>
    ELSE LET head == SubSeq(p, 1, Len(p) - 1)
         IN IF \A i \in 1..Len(head) : head[i] = "" THEN head \o <<"">>
            ELSE RStripSlash(head)

\* os.path.basename(p)
basename(p) == <<p[Len(p)]>>

\* os.path.exists(path), asked of the host filesystem as it stands at the
\* moment of the call: fs is the set of paths present at that moment.
exists(path, fs) == path \in fs

\* ------------------------------------------------- external collaborators
\* utilities.format_permissions(permissions): an opaque rendering of the bits.
format_permissions(permissions) == <<"permissions", FormatD(permissions)>>

\* The host's user and group databases: id -> name.  Every host has root;
\* no host has an entry for -1.
passwd_database == (0 :> "root")
group_database == (0 :> "root")

\* A raised KeyError(message); a call that raises returns this in place of
\* its value, and the caller hands it on unchanged.
KeyError(message) == <<"KeyError", message>>
Raises(value) == Len(value) = 2 /\ value[1] = "KeyError"

\* pwd.getpwuid(uid)[0]: the user's name, KeyError for an unknown uid.
getpwuid(uid) ==
    IF uid \in DOMAIN passwd_database THEN <<passwd_database[uid]>>
    ELSE KeyError(<<"getpwuid(): uid not found: ", FormatD(uid)>>)

\* grp.getgrgid(gid)[0]: the group's name, KeyError for an unknown gid.
getgrgid(gid) ==
    IF gid \in DOMAIN group_database THEN <<group_database[gid]>>
    ELSE KeyError(<<"getgrgid(): gid not found: ", FormatD(gid)>>)

Description(label, parts) == [label |-> label, parts |-> parts]

\* ------------------------------------------------------- plain formatters
format_delete(path) == Some(Description("delete", <<abspath(path)>>))

format_move(path_old, path_new) ==
    LET old == abspath(path_old)
        new == abspath(path_new)
    IN IF dirname(old) = dirname(new)
       THEN Some(Description("rename", <<old, basename(new)>>))
       ELSE Some(Description("move", <<old, new>>))

format_change_permissions(path, permissions) ==
    Some(Description("change permissions", <<abspath(path), format_permissions(permissions)>>))

\* The lookups come first and a KeyError from either leaves the function at
\* once; in the last branch the user is looked up before the group.
format_change_owner(path, owner, group) ==
    IF owner = -1
    THEN LET g == getgrgid(group)
         IN IF Raises(g) THEN g
            ELSE Some(Description("change group", <<abspath(path), g>>))
    ELSE IF group = -1
    THEN LET u == getpwuid(owner)
         IN IF Raises(u) THEN u
            ELSE Some(Description("change owner", <<abspath(path), u>>))
    ELSE LET u == getpwuid(owner)
             g == getgrgid(group)
         IN IF Raises(u) THEN u
            ELSE IF Raises(g) THEN g
            ELSE Some(Description("change owner", <<abspath(path), u \o <<":">> \o g>>))

format_create_directory(path) == Some(Description("create directory", <<abspath(path)>>))

format_create_link(path_source, path_target, symbolic) ==
    Some(Description(IF symbolic THEN "create symbolic link" ELSE "create hard link",
                     <<abspath(path_source), abspath(path_target)>>))

\* ------------------------------------------------------ descriptor table
\* The result of a call that may update the module-level table: the value
\* returned and the two globals after the call.
Result(ret, nfd, fds) ==
    [ret |-> ret, next_file_descriptor |-> nfd, file_descriptors |-> fds]

\* Mutant: the counter is incremented before its value is taken.
get_next_file_descriptor_incremented_first(nfd) ==
    [ret |-> nfd + 1, next_file_descriptor |-> nfd + 1]

\* get_next_file_descriptor(): returns the counter, then increments it.
get_next_file_descriptor(nfd) == [ret |-> nfd, next_file_descriptor |-> nfd + 1]

\* "/dev/fd/%d" % file_descriptor
DevFdPath(file_descriptor) == <<"", "dev", "fd", FormatD(file_descriptor)>>

\* dict item assignment file_descriptors[key] = value
SetItem(fds, key, value) ==
    [k \in DOMAIN fds \cup {key} |-> IF k = key THEN value ELSE fds[k]]

get_file_descriptor_path(file_descriptor, fds) ==
    IF file_descriptor \in DOMAIN fds THEN fds[file_descriptor]
    ELSE DevFdPath(file_descriptor)

allowed_files == { <<"", "dev", "null">>, <<"", "dev", "zero">>, <<"", "dev", "tty">> }

\* ------------------------------------------------------------ open family
\* The functions below ask the host whether a path exists, some of them more
\* than once in one call, and the host filesystem is shared with every other
\* process: it may change between any two questions.  Each takes reads, the
\* filesystem as it stands at each exists() the call makes, in order:
\* reads[k] is what the k-th exists() of the call sees.

\* format_open asks on line 86 only when O_CREAT is set (`and` does not
\* evaluate its right side otherwise), and asks again on line 88.
format_open(path, flags, reads) ==
    LET p == abspath(path)
        second == IF BitAnd(flags, O_CREAT) # 0 THEN 2 ELSE 1
    IN IF p \in allowed_files THEN None
       ELSE IF BitAnd(flags, O_CREAT) # 0 /\ ~exists(p, reads[1])
       THEN Some(Description("create file", <<p>>))
       ELSE IF BitAnd(flags, O_TRUNC) # 0 /\ exists(p, reads[second])
       THEN Some(Description("truncate file", <<p>>))
       ELSE None

\* Mutant: the path is recorded as given, not normalized.
substitute_open_records_raw_path(path, flags, nfd, fds, reads) ==
    LET p == abspath(path)
    IN IF p \in allowed_files THEN Result(None, nfd, fds)
       ELSE IF BitAnd(flags, O_WRONLY) # 0 \/ BitAnd(flags, O_RDWR) # 0
               \/ BitAnd(flags, O_APPEND) # 0 \/ format_open(p, flags, reads) # None
       THEN LET a == get_next_file_descriptor(nfd)
            IN Result(Some(a.ret), a.next_file_descriptor, SetItem(fds, a.ret, path))
       ELSE Result(None, nfd, fds)

\* Mutant: the allow-list is consulted with the path as given.
substitute_open_allow_list_on_raw_path(path, flags, nfd, fds, reads) ==
    LET p == abspath(path)
    IN IF path \in allowed_files THEN Result(None, nfd, fds)
       ELSE IF BitAnd(flags, O_WRONLY) # 0 \/ BitAnd(flags, O_RDWR) # 0
               \/ BitAnd(flags, O_APPEND) # 0 \/ format_open(p, flags, reads) # None
       THEN LET a == get_next_file_descriptor(nfd)
            IN Result(Some(a.ret), a.next_file_descriptor, SetItem(fds, a.ret, p))
       ELSE Result(None, nfd, fds)

substitute_open(path, flags, nfd, fds, reads) ==
    LET p == abspath(path)
    IN IF p \in allowed_files THEN Result(None, nfd, fds)
       ELSE IF BitAnd(flags, O_WRONLY) # 0 \/ BitAnd(flags, O_RDWR) # 0
               \/ BitAnd(flags, O_APPEND) # 0 \/ format_open(p, flags, reads) # None
       THEN LET a == get_next_file_descriptor(nfd)
            IN Result(Some(a.ret), a.next_file_descriptor, SetItem(fds, a.ret, p))
       ELSE Result(None, nfd, fds)

\* ----------------------------------------------------------- mknod family
format_mknod(path, type, reads) ==
    LET p == abspath(path)
    IN IF exists(p, reads[1]) THEN None
       ELSE IF BitAnd(type, S_IFCHR) # 0
       THEN Some(Description("create character special file", <<p>>))
       ELSE IF BitAnd(type, S_IFBLK) # 0
       THEN Some(Description("create block special file", <<p>>))
       ELSE IF BitAnd(type, S_IFIFO) # 0
       THEN Some(Description("create named pipe", <<p>>))
       ELSE IF BitAnd(type, S_IFSOCK) # 0
       THEN Some(Description("create socket", <<p>>))
       ELSE Some(Description("create file", <<p>>))

\* Mutant: 0 whether or not the path exists.
substitute_mknod_always_zero(path, type, nfd, fds, reads) == Result(Some(0), nfd, fds)

\* Mutant: a described call is given a tracked descriptor, as for open.
substitute_mknod_allocates(path, type, nfd, fds, reads) ==
    IF format_mknod(path, type, reads) = None THEN Result(None, nfd, fds)
    ELSE LET a == get_next_file_descriptor(nfd)
         IN Result(Some(a.ret), a.next_file_descriptor, SetItem(fds, a.ret, abspath(path)))

substitute_mknod(path, type, nfd, fds, reads) ==
    IF format_mknod(path, type, reads) = None THEN Result(None, nfd, fds)
    ELSE Result(Some(0), nfd, fds)

\* ----------------------------------------------------------- write family
format_write(file_descriptor, byte_count, fds) ==
    IF file_descriptor \in DOMAIN fds
    THEN Some(Description("write", <<<<FormatD(byte_count), "bytes">>, fds[file_descriptor]>>))
    ELSE None

substitute_write(file_descriptor, byte_count, nfd, fds) ==
    IF format_write(file_descriptor, byte_count, fds) = None THEN Result(None, nfd, fds)
    ELSE Result(Some(byte_count), nfd, fds)

\* ------------------------------------------------------------- dup family
\* Mutant: the entry is moved to the new descriptor, not copied.
substitute_dup_moves(file_descriptor_old, file_descriptor_new, nfd, fds) ==
    IF file_descriptor_old \notin DOMAIN fds THEN Result(None, nfd, fds)
    ELSE LET a == IF file_descriptor_new = None THEN get_next_file_descriptor(nfd)
                  ELSE [ret |-> file_descriptor_new[1], next_file_descriptor |-> nfd]
         IN Result(Some(a.ret), a.next_file_descriptor,
                   [k \in (DOMAIN fds \ {file_descriptor_old}) \cup {a.ret} |->
                        IF k = a.ret THEN fds[file_descriptor_old] ELSE fds[k]])

\* file_descriptor_new is None (<<>>) for dup, Some(newfd) for dup2 / dup3.
substitute_dup(file_descriptor_old, file_descriptor_new, nfd, fds) ==
    IF file_descriptor_old \notin DOMAIN fds THEN Result(None, nfd, fds)
    ELSE LET a == IF file_descriptor_new = None THEN get_next_file_descriptor(nfd)
                  ELSE [ret |-> file_descriptor_new[1], next_file_descriptor |-> nfd]
         IN Result(Some(a.ret), a.next_file_descriptor,
                   SetItem(fds, a.ret, fds[file_descriptor_old]))

\* ---------------------------------------------------------------- registry
DeleteFamily == {"unlink", "unlinkat", "rmdir"}
MoveFamily == {"rename", "renameat", "renameat2"}
PermissionFamily == {"chmod", "fchmod", "fchmodat"}
OwnerFamily == {"chown", "fchown", "lchown", "fchownat"}
DirectoryFamily == {"mkdir", "mkdirat"}
LinkFamily == {"link", "linkat", "symlink", "symlinkat"}
OpenFamily == {"open", "creat", "openat"}
MknodFamily == {"mknod", "mknodat", "mkfifo", "mkfifoat"}
WriteFamily == {"write", "pwrite", "writev", "pwritev"}
DupFamily == {"dup", "dup2", "dup3"}

\* The names of SYSCALL_FILTERS.
SyscallNames ==
    DeleteFamily \cup MoveFamily \cup PermissionFamily \cup OwnerFamily
        \cup DirectoryFamily \cup LinkFamily \cup OpenFamily \cup MknodFamily
        \cup WriteFamily \cup DupFamily

\* creat's flags: O_CREAT | O_WRONLY | O_TRUNC
CreatFlags == BitOr(BitOr(O_CREAT, O_WRONLY), O_TRUNC)

\* The format lambda of the SYSCALL_FILTERS entry called name.
SyscallFormat(name, args, fds, reads) ==
    CASE name = "unlink" -> format_delete(args[1])
      [] name = "unlinkat" -> format_delete(args[2])
      [] name = "rmdir" -> format_delete(args[1])
      [] name = "rename" -> format_move(args[1], args[2])
      [] name = "renameat" -> format_move(args[2], args[4])
      [] name = "renameat2" -> format_move(args[2], args[4])
      [] name = "chmod" -> format_change_permissions(args[1], args[2])
      [] name = "fchmod" ->
             format_change_permissions(get_file_descriptor_path(args[1], fds), args[2])
      [] name = "fchmodat" -> format_change_permissions(args[2], args[3])
      [] name = "chown" -> format_change_owner(args[1], args[2], args[3])
      [] name = "fchown" ->
             format_change_owner(get_file_descriptor_path(args[1], fds), args[2], args[3])
      [] name = "lchown" -> format_change_owner(args[1], args[2], args[3])
      [] name = "fchownat" -> format_change_owner(args[2], args[3], args[4])
      [] name = "mkdir" -> format_create_directory(args[1])
      [] name = "mkdirat" -> format_create_directory(args[2])
      [] name = "link" -> format_create_link(args[2], args[1], FALSE)
      [] name = "linkat" -> format_create_link(args[4], args[2], FALSE)
      [] name = "symlink" -> format_create_link(args[2], args[1], TRUE)
      [] name = "symlinkat" -> format_create_link(args[3], args[1], TRUE)
      [] name = "open" -> format_open(args[1], args[2], reads)
      [] name = "creat" -> format_open(args[1], CreatFlags, reads)
      [] name = "openat" -> format_open(args[2], args[3], reads)
      [] name = "mknod" -> format_mknod(args[1], args[2], reads)
      [] name = "mknodat" -> format_mknod(args[2], args[3], reads)
      [] name = "mkfifo" -> format_mknod(args[1], S_IFIFO, reads)
      [] name = "mkfifoat" -> format_mknod(args[2], S_IFIFO, reads)
      [] name \in WriteFamily -> format_write(args[1], args[3], fds)
      [] name \in DupFamily -> None

\* The substitute lambda of the SYSCALL_FILTERS entry called name; the
\* namedtuple default (lambda args: 0) where the entry gives none.
SyscallSubstitute(name, args, nfd, fds, reads) ==
    CASE name = "open" -> substitute_open(args[1], args[2], nfd, fds, reads)
      [] name = "creat" -> substitute_open(args[1], CreatFlags, nfd, fds, reads)
      [] name = "openat" -> substitute_open(args[2], args[3], nfd, fds, reads)
      [] name = "mknod" -> substitute_mknod(args[1], args[2], nfd, fds, reads)
      [] name = "mknodat" -> substitute_mknod(args[2], args[3], nfd, fds, reads)
      [] name = "mkfifo" -> substitute_mknod(args[1], S_IFIFO, nfd, fds, reads)
      [] name = "mkfifoat" -> substitute_mknod(args[2], S_IFIFO, nfd, fds, reads)
      [] name \in WriteFamily -> substitute_write(args[1], args[3], nfd, fds)
      [] name = "dup" -> substitute_dup(args[1], None, nfd, fds)
      [] name = "dup2" -> substitute_dup(args[1], Some(args[2]), nfd, fds)
      [] name = "dup3" -> substitute_dup(args[1], Some(args[2]), nfd, fds)
      [] OTHER -> Result(Some(0), nfd, fds)

\* ------------------------------------------------------------------ state
VARIABLES
    next_file_descriptor,  \* the module global next_file_descriptor
    file_descriptors,      \* the module global file_descriptors (dict fd -> path)
    last,                  \* the last intercepted call: what format and substitute
                           \* returned and what their exists() calls saw
    allocations,           \* history: values returned by get_next_file_descriptor so far
    opened                 \* history: fd -> abspath(path) for descriptors returned by an
                           \* open-family substitute and not since targeted by dup2/dup3

vars == <<next_file_descriptor, file_descriptors, last, allocations, opened>>

NoCall == [name |-> "", args |-> <<>>, format |-> None, format_reads |-> <<>>,
           substituted |-> FALSE, substitute |-> None, substitute_reads |-> <<>>]

Init ==
    /\ next_file_descriptor = 1000
    /\ file_descriptors = <<>>
    /\ last = NoCall
    /\ allocations = {}
    /\ opened = <<>>

\* The pathname argument of an open-family call.
OpenPath(name, args) == IF name = "openat" THEN args[2] ELSE args[1]

\* The flags an open-family call passes to format_open / substitute_open.
OpenFlags(name, args) ==
    CASE name = "open" -> args[2] [] name = "creat" -> CreatFlags [] name = "openat" -> args[3]

\* The pathname and type arguments of a special-file call.
MknodPath(name, args) == IF name \in {"mknodat", "mkfifoat"} THEN args[2] ELSE args[1]
MknodType(name, args) ==
    CASE name = "mknod" -> args[2] [] name = "mknodat" -> args[3] [] OTHER -> S_IFIFO

\* How many times format_open(path, flags) may call exists().
OpenReads(path, flags) ==
    IF abspath(path) \in allowed_files THEN 0
    ELSE (IF BitAnd(flags, O_CREAT) # 0 THEN 1 ELSE 0)
             + (IF BitAnd(flags, O_TRUNC) # 0 THEN 1 ELSE 0)

\* How many times the entry's format may call exists().
FormatReads(name, args) ==
    IF name \in OpenFamily THEN OpenReads(OpenPath(name, args), OpenFlags(name, args))
    ELSE IF name \in MknodFamily THEN 1
    ELSE 0

\* How many times the entry's substitute may call exists(): substitute_open
\* reaches format_open only when none of the three access flags is set.
SubstituteReads(name, args) ==
    IF name \in OpenFamily
    THEN IF BitAnd(OpenFlags(name, args), O_WRONLY) # 0
            \/ BitAnd(OpenFlags(name, args), O_RDWR) # 0
            \/ BitAnd(OpenFlags(name, args), O_APPEND) # 0
         THEN 0
         ELSE OpenReads(OpenPath(name, args), OpenFlags(name, args))
    ELSE IF name \in MknodFamily THEN 1
    ELSE 0

\* What one exists() of the call may find on the host: the devices of the
\* allow-list are always there, the call's own path is there or not.
HostStates(name, args) ==
    LET p == IF name \in OpenFamily THEN abspath(OpenPath(name, args))
             ELSE IF name \in MknodFamily THEN abspath(MknodPath(name, args))
             ELSE <<"">>
    IN IF p \in allowed_files \/ name \notin OpenFamily \cup MknodFamily
       THEN {allowed_files}
       ELSE {allowed_files, allowed_files \cup {p}}

\* One intercepted syscall.  The tracer decodes the arguments, calls the
\* entry's format, and then either calls its substitute (substituted = TRUE:
\* the call is being suppressed and its return value forged) or does not
\* (substituted = FALSE: the call is let through to the kernel).  A KeyError
\* out of format ends the handling of the call: substitute is not reached.
\* Every exists() made on the way sees the host as it is at that moment.
Intercept(name, args, substituted) ==
    \E format_reads \in [1..FormatReads(name, args) -> HostStates(name, args)] :
    \E fmt \in {SyscallFormat(name, args, file_descriptors, format_reads)} :
    \E reached \in {substituted /\ ~Raises(fmt)} :
    \E substitute_reads \in
           [1..(IF reached THEN SubstituteReads(name, args) ELSE 0) -> HostStates(name, args)] :
    \E sub \in {IF reached
                 THEN SyscallSubstitute(name, args, next_file_descriptor, file_descriptors,
                                        substitute_reads)
                 ELSE Result(None, next_file_descriptor, file_descriptors)} :
       /\ sub.next_file_descriptor <= 1000 + MaxAlloc
       /\ next_file_descriptor' = sub.next_file_descriptor
       /\ file_descriptors' = sub.file_descriptors
       /\ last' = [name |-> name, args |-> args, format |-> fmt,
                   format_reads |-> format_reads, substituted |-> reached,
                   substitute |-> sub.ret, substitute_reads |-> substitute_reads]
       /\ allocations' = IF sub.ret # None /\ (name \in OpenFamily \/ name = "dup")
                         THEN allocations \cup {sub.ret[1]} ELSE allocations
       /\ opened' =
              IF sub.ret # None /\ name \in OpenFamily
              THEN SetItem(opened, sub.ret[1], abspath(OpenPath(name, args)))
              ELSE IF sub.ret # None /\ name \in {"dup2", "dup3"}
              THEN [d \in DOMAIN opened \ {args[2]} |-> opened[d]]
              ELSE opened

\* ---------------------------------------------------------------- actions
\* Each action is one family of SYSCALL_FILTERS: the tracer looks the name up
\* in the registry and hands the entry the arguments in the order of its
\* signature.  U names the sets the arguments are drawn from; -100 is
\* AT_FDCWD for the dirfd arguments.
Delete(U) ==
    \E path \in U.paths, substituted \in BOOLEAN, name \in DeleteFamily :
        /\ name \in SyscallNames
        /\ Intercept(name, IF name = "unlinkat" THEN <<-100, path, 0>> ELSE <<path>>,
                     substituted)

Move(U) ==
    \E old \in U.paths, new \in U.paths, substituted \in BOOLEAN, name \in MoveFamily :
        /\ name \in SyscallNames
        /\ Intercept(name,
                     CASE name = "rename" -> <<old, new>>
                       [] name = "renameat" -> <<-100, old, -100, new>>
                       [] name = "renameat2" -> <<-100, old, -100, new, 0>>,
                     substituted)

ChangePermissions(U) ==
    \E mode \in U.modes, substituted \in BOOLEAN :
        \/ \E path \in U.paths, name \in {"chmod", "fchmodat"} :
               /\ name \in SyscallNames
               /\ Intercept(name,
                            IF name = "chmod" THEN <<path, mode>>
                            ELSE <<-100, path, mode, 0>>,
                            substituted)
        \/ \E fd \in U.fds :
               /\ "fchmod" \in SyscallNames
               /\ Intercept("fchmod", <<fd, mode>>, substituted)

ChangeOwner(U) ==
    \E owner \in U.ids, group \in U.ids, substituted \in BOOLEAN :
        \/ \E path \in U.paths, name \in {"chown", "lchown", "fchownat"} :
               /\ name \in SyscallNames
               /\ Intercept(name,
                            IF name = "fchownat" THEN <<-100, path, owner, group, 0>>
                            ELSE <<path, owner, group>>,
                            substituted)
        \/ \E fd \in U.fds :
               /\ "fchown" \in SyscallNames
               /\ Intercept("fchown", <<fd, owner, group>>, substituted)

CreateDirectory(U) ==
    \E path \in U.paths, mode \in U.modes, substituted \in BOOLEAN,
       name \in DirectoryFamily :
        /\ name \in SyscallNames
        /\ Intercept(name,
                     IF name = "mkdirat" THEN <<-100, path, mode>> ELSE <<path, mode>>,
                     substituted)

CreateLink(U) ==
    \E target \in U.paths, new \in U.paths, substituted \in BOOLEAN, name \in LinkFamily :
        /\ name \in SyscallNames
        /\ Intercept(name,
                     CASE name = "linkat" -> <<-100, target, -100, new, 0>>
                       [] name = "symlinkat" -> <<target, -100, new>>
                       [] OTHER -> <<target, new>>,
                     substituted)

Open(U) ==
    \E path \in U.paths, substituted \in BOOLEAN :
        \/ \E flags \in U.flags, name \in {"open", "openat"} :
               /\ name \in SyscallNames
               /\ Intercept(name,
                            IF name = "open" THEN <<path, flags>>
                            ELSE <<-100, path, flags>>,
                            substituted)
        \/ \E mode \in U.modes :
               /\ "creat" \in SyscallNames
               /\ Intercept("creat", <<path, mode>>, substituted)

Mknod(U) ==
    \E path \in U.paths, substituted \in BOOLEAN :
        \/ \E type \in U.types, name \in {"mknod", "mknodat"} :
               /\ name \in SyscallNames
               /\ Intercept(name,
                            IF name = "mknod" THEN <<path, type>>
                            ELSE <<-100, path, type>>,
                            substituted)
        \/ \E mode \in U.modes, name \in {"mkfifo", "mkfifoat"} :
               /\ name \in SyscallNames
               /\ Intercept(name,
                            IF name = "mkfifo" THEN <<path, mode>>
                            ELSE <<-100, path, mode>>,
                            substituted)

Write(U) ==
    \E fd \in U.fds, count \in U.counts, substituted \in BOOLEAN, name \in WriteFamily :
        /\ name \in SyscallNames
        /\ Intercept(name,
                     CASE name = "write" -> <<fd, "buf", count>>
                       [] name = "pwrite" -> <<fd, "buf", count, 0>>
                       [] name = "writev" -> <<fd, "iov", count>>
                       [] name = "pwritev" -> <<fd, "iov", count, 0>>,
                     substituted)

Dup(U) ==
    \E oldfd \in U.fds, substituted \in BOOLEAN :
        \/ /\ "dup" \in SyscallNames
           /\ Intercept("dup", <<oldfd>>, substituted)
        \/ \E newfd \in U.targets, name \in {"dup2", "dup3"} :
               /\ name \in SyscallNames
               /\ Intercept(name,
                            IF name = "dup2" THEN <<oldfd, newfd>>
                            ELSE <<oldfd, newfd, 0>>,
                            substituted)

\* ------------------------------------------------------------------ inputs
\* "x" (relative to Cwd), "/tmp/sub/../y", and three spellings of the
\* allow-listed devices.
PathX == <<"x">>
PathY == <<"", "tmp", "sub", "..", "y">>
PathNull == <<"", "dev", "null">>
PathZero == <<"", "dev", ".", "zero">>
PathTty == <<"", "tmp", "..", "dev", "tty">>

\* All combinations of the five flags the source tests; O_WRONLY | O_RDWR is
\* not a valid access mode and is left out.
AllFlags ==
    { acc + app + cr + tr : acc \in {0, O_WRONLY, O_RDWR}, app \in {0, O_APPEND},
                            cr \in {0, O_CREAT}, tr \in {0, O_TRUNC} }

\* stat.S_IFREG
S_IFREG == 32768

\* The file types of mknod(2), alone and with permission bits 0644.
AllTypes == {0, S_IFCHR, S_IFBLK, S_IFIFO, S_IFSOCK, S_IFREG, S_IFIFO + 420}

\* The whole registry on few arguments.
URegistry ==
    [paths |-> {PathX, PathNull}, flags |-> {0, CreatFlags}, modes |-> {420},
     types |-> {0, S_IFIFO}, ids |-> {-1, 0, 54321}, fds |-> {99, 1000}, targets |-> {7},
     counts |-> {MaxCount}]

\* The open family on every flag combination and the allow-listed devices.
UOpen ==
    [paths |-> {PathX, PathNull, PathZero, PathTty}, flags |-> AllFlags, modes |-> {420}]

\* The special-file family on every file type.
UMknod ==
    [paths |-> {PathX, PathY, PathNull}, flags |-> {O_WRONLY}, modes |-> {420},
     types |-> AllTypes]

\* Descriptor tracking: opens, writes and duplications on two paths.
UDescriptors ==
    [paths |-> {PathX, PathY}, flags |-> {0, O_WRONLY}, modes |-> {420},
     fds |-> {7, 99, 1000, 1001}, targets |-> {7, 1001}, counts |-> {0, MaxCount}]

Next ==
    \/ Delete(URegistry)
    \/ Move(URegistry)
    \/ ChangePermissions(URegistry)
    \/ ChangeOwner(URegistry)
    \/ CreateDirectory(URegistry)
    \/ CreateLink(URegistry)
    \/ Open(URegistry)
    \/ Mknod(URegistry)
    \/ Write(URegistry)
    \/ Dup(URegistry)

Spec == Init /\ [][Next]_vars

NextOpen == Open(UOpen)

SpecOpen == Init /\ [][NextOpen]_vars

NextMknod == Mknod(UMknod) \/ Open([UMknod EXCEPT !.paths = {PathY}])

SpecMknod == Init /\ [][NextMknod]_vars

NextDescriptors == Open(UDescriptors) \/ Write(UDescriptors) \/ Dup(UDescriptors)

SpecDescriptors == Init /\ [][NextDescriptors]_vars

\* ------------------------------------------------------------------ claims
\* Every step is one intercepted call, and `last'` is that call.

\* Whether the single-bit flag is set in flags, by division.
HasFlag(flags, flag) == (flags \div flag) % 2 = 1

\* C1: a write-family call with count n on a descriptor d that an open-family
\* call on p returned, with no dup2/dup3 onto d since, formats as a write of
\* exactly n bytes to abspath(p), and its substitute, when called, is n.
C1_WriteAfterOpen ==
    (last.name \in WriteFamily /\ last.args[1] \in DOMAIN opened) =>
        /\ last.format =
               Some([label |-> "write",
                     parts |-> <<<<ToString(last.args[3]), "bytes">>, opened[last.args[1]]>>])
        /\ last.substituted => last.substitute = Some(last.args[3])

C1_Witness ==
    /\ last.name = "pwritev"
    /\ last.substituted
    /\ last.args[1] = 1001
    /\ last.args[3] = MaxCount
    /\ 1001 \in DOMAIN opened
    /\ opened[1001] = <<"", "tmp", "y">>
    /\ last.substitute = Some(MaxCount)

\* C2 (as claimed): every open-family call on a path outside the allow-list
\* that asks for write access, or that format_open describes, leaves a new
\* entry fd -> abspath(path) in file_descriptors, whether or not substitute
\* was called for it.
C2_TrackedWhateverTheDecision ==
    [][(/\ last'.name \in SyscallNames
        /\ last'.name \in OpenFamily
        /\ abspath(OpenPath(last'.name, last'.args)) \notin allowed_files
        /\ \/ HasFlag(OpenFlags(last'.name, last'.args), O_WRONLY)
           \/ HasFlag(OpenFlags(last'.name, last'.args), O_RDWR)
           \/ HasFlag(OpenFlags(last'.name, last'.args), O_APPEND)
           \/ last'.format # None)
       => \E d \in DOMAIN file_descriptors' \ DOMAIN file_descriptors :
              file_descriptors'[d] = abspath(OpenPath(last'.name, last'.args))]_vars

\* C3: a dup-family call on a descriptor tracked to P leaves both the
\* destination (the given target for dup2/dup3, the returned fresh descriptor
\* for dup) and the source resolving to P.
C3_DupCopies ==
    [][(/\ last'.name \in SyscallNames
        /\ last'.name \in DupFamily
        /\ last'.substituted
        /\ last'.args[1] \in DOMAIN file_descriptors)
       => LET P == file_descriptors[last'.args[1]]
              t == IF last'.name = "dup" THEN next_file_descriptor ELSE last'.args[2]
          IN /\ last'.substitute = Some(t)
             /\ t \in DOMAIN file_descriptors'
             /\ get_file_descriptor_path(t, file_descriptors') = P
             /\ get_file_descriptor_path(last'.args[1], file_descriptors') = P]_vars

C3_Witness ==
    /\ last.name = "dup2"
    /\ last.args = <<1000, 7>>
    /\ last.substitute = Some(7)
    /\ 7 \in DOMAIN file_descriptors
    /\ file_descriptors[7] = <<"", "tmp", "y">>
    /\ file_descriptors[1000] = <<"", "tmp", "y">>

\* C4: an open-family call whose path normalizes into the allow-list formats
\* as None, and neither format nor substitute changes file_descriptors or
\* next_file_descriptor, whatever the flags.
C4_AllowListUntracked ==
    [][(/\ last'.name \in SyscallNames
        /\ last'.name \in OpenFamily
        /\ abspath(OpenPath(last'.name, last'.args)) \in allowed_files)
       => /\ last'.format = None
          /\ last'.substitute = None
          /\ file_descriptors' = file_descriptors
          /\ next_file_descriptor' = next_file_descriptor]_vars

C4_Witness ==
    /\ last.name = "openat"
    /\ last.args = <<-100, PathTty, O_CREAT + O_TRUNC + O_RDWR + O_APPEND>>
    /\ last.substituted
    /\ last.format = None
    /\ DOMAIN file_descriptors = {1000}

\* C5 (as claimed): substitute is 0 for every entry outside the open, write
\* and dup families, the special-file family included, whatever the
\* arguments and the state.
C5_ZeroOutsideOpenWriteDup ==
    (last.name \in SyscallNames \ (OpenFamily \cup WriteFamily \cup DupFamily)
         /\ last.substituted)
        => last.substitute = Some(0)

\* C5 (amended): substitute is 0 for every entry outside the open, write and
\* dup families, except that a special-file entry returns None when its
\* exists() finds the target path present.
C5_ZeroUnlessSpecialFileExists ==
    (last.name \in SyscallNames \ (OpenFamily \cup WriteFamily \cup DupFamily)
         /\ last.substituted)
        => last.substitute =
               IF last.name \in MknodFamily
                  /\ abspath(MknodPath(last.name, last.args)) \in last.substitute_reads[1]
               THEN None
               ELSE Some(0)

C5_Witness ==
    /\ last.name = "mkfifoat"
    /\ last.substituted
    /\ last.substitute = None
    /\ abspath(last.args[2]) \in last.substitute_reads[1]
    /\ abspath(last.args[2]) \notin allowed_files

\* C6 (as claimed): a special-file call that format_mknod describes has a
\* substitute that allocates the next descriptor, records it against
\* abspath(path) and returns it.
C6_SpecialFileAllocates ==
    [][(/\ last'.name \in SyscallNames
        /\ last'.name \in MknodFamily
        /\ last'.substituted
        /\ last'.format # None)
       => /\ last'.substitute = Some(next_file_descriptor)
          /\ next_file_descriptor' = next_file_descriptor + 1
          /\ file_descriptors' =
                 SetItem(file_descriptors, next_file_descriptor,
                         abspath(MknodPath(last'.name, last'.args)))]_vars

\* C6 (amended): a special-file call that format_mknod describes has a
\* substitute that allocates and records nothing: file_descriptors and
\* next_file_descriptor stay as they were, and it returns 0 when its own
\* exists() still finds the path missing, None when the path has appeared
\* since format ran.
C6_SpecialFileReturnsZero ==
    [][(/\ last'.name \in MknodFamily
        /\ last'.substituted
        /\ last'.format # None)
       => /\ last'.substitute =
                 IF abspath(MknodPath(last'.name, last'.args)) \in last'.substitute_reads[1]
                 THEN None
                 ELSE Some(0)
          /\ next_file_descriptor' = next_file_descriptor
          /\ file_descriptors' = file_descriptors]_vars

C6_Witness ==
    /\ last.name = "mknod"
    /\ last.args = <<PathX, S_IFSOCK>>
    /\ last.substituted
    /\ last.format # None
    /\ last.substitute = Some(0)
    /\ DOMAIN file_descriptors = {1000}
    /\ next_file_descriptor = 1001

\* C7: next_file_descriptor is at least 1000 and never decreases; a call that
\* allocates returns the counter's value before the call, advances it by
\* exactly one and returns a value no earlier allocation returned; every
\* tracked descriptor maps to one absolute path.
C7_AllocatorMonotonic ==
    [][/\ next_file_descriptor >= 1000
       /\ next_file_descriptor' >= next_file_descriptor
       /\ (last'.substitute # None /\ (last'.name \in OpenFamily \/ last'.name = "dup"))
              => /\ last'.substitute = Some(next_file_descriptor)
                 /\ next_file_descriptor' = next_file_descriptor + 1
                 /\ next_file_descriptor \notin allocations
       /\ ~(last'.substitute # None /\ (last'.name \in OpenFamily \/ last'.name = "dup"))
              => next_file_descriptor' = next_file_descriptor
       /\ \A d \in DOMAIN file_descriptors' : isabs(file_descriptors'[d])]_vars

C7_Witness ==
    /\ last.name = "dup"
    /\ last.substitute = Some(1001)
    /\ allocations = {1000, 1001}
    /\ next_file_descriptor = 1002

\* The label the claim gives each file type.
C8_Label(type) ==
    CASE type = S_IFCHR -> "create character special file"
      [] type = S_IFBLK -> "create block special file"
      [] type = S_IFIFO -> "create named pipe"
      [] type = S_IFSOCK -> "create socket"
      [] type = 0 -> "create file"

\* C8 (as claimed): a special-file call formats as None when the path exists;
\* otherwise mknod/mknodat with type S_IFCHR, S_IFBLK, S_IFIFO, S_IFSOCK or 0
\* is labelled after that type, and mkfifo/mkfifoat as a named pipe.
C8_LabelByType ==
    [][(last'.name \in MknodFamily)
       => LET path == abspath(MknodPath(last'.name, last'.args))
              type == MknodType(last'.name, last'.args)
          IN IF path \in last'.format_reads[1] THEN last'.format = None
             ELSE type \in {S_IFCHR, S_IFBLK, S_IFIFO, S_IFSOCK, 0}
                      => last'.format = Some([label |-> C8_Label(type),
                                              parts |-> <<path>>])]_vars

\* What the claim gives for flags when the path's existence is e.
C9_Mediated(flags, e) ==
    \/ HasFlag(flags, O_CREAT) /\ ~e
    \/ HasFlag(flags, O_TRUNC) /\ e

\* C9 (as claimed): off the allow-list, open/openat format as something
\* exactly when O_CREAT is set and the path is missing or O_TRUNC is set and
\* the path exists; creat always formats (create when missing, truncate when
\* present) and its substitute tracks and returns the next descriptor.  The
\* path's existence is taken as the call found it: the formula holds of a
\* call when it holds for an existence that one of its exists() saw.
C9_OpenMediatedIff ==
    [][(/\ last'.name \in OpenFamily
        /\ abspath(OpenPath(last'.name, last'.args)) \notin allowed_files)
       => LET path == abspath(OpenPath(last'.name, last'.args))
              flags == OpenFlags(last'.name, last'.args)
              seen == {exists(path, last'.format_reads[k]) :
                           k \in DOMAIN last'.format_reads}
          IN \E e \in IF seen = {} THEN BOOLEAN ELSE seen :
                 /\ last'.format # None <=> C9_Mediated(flags, e)
                 /\ last'.name = "creat" =>
                        /\ last'.format =
                               Some([label |-> IF e THEN "truncate file" ELSE "create file",
                                     parts |-> <<path>>])
                        /\ last'.substituted
                               => /\ last'.substitute = Some(next_file_descriptor)
                                  /\ file_descriptors' =
                                         SetItem(file_descriptors, next_file_descriptor,
                                                 path)]_vars

\* C10 (as claimed): the descriptor a call allocates is not yet a key of
\* file_descriptors.
C10_FreshNotTracked ==
    [][(last'.substitute # None /\ (last'.name \in OpenFamily \/ last'.name = "dup")
            /\ next_file_descriptor' # next_file_descriptor)
       => last'.substitute[1] \notin DOMAIN file_descriptors]_vars

====
